---- MODULE Spec2Model ----
(***************************************************************************)
(* Grasp data generation of vgn (vgn/data_generation.py): the per-scene    *)
(* sampling loop of generate_samples, the yaw sweep and peak selection of  *)
(* evaluate_grasp_point, and the voxel rasterisation of store_sample.      *)
(*                                                                         *)
(* Lengths are integers in units of half a voxel, a yaw angle is the pair  *)
(* <<num, den>> standing for num * pi / den, and a rotation R * Rz(yaw) is *)
(* kept exactly as the record [R |-> frame, yaw |-> <<num, den>>].         *)
(***************************************************************************)
EXTENDS Integers, Sequences, FiniteSets, TLC

\* ------------------------------------------------------------- bounds
\* greatest num_scenes a run is started with
MaxScenes == 2
\* greatest num_grasps_per_scene a run is started with
MaxQuota == 3
\* greatest num_rotations evaluate_grasp_point is called with in SpecEval
MaxRotations == 5
\* greatest num_scenes of a run of LiveSpec
MaxLiveScenes == 1

\* ------------------------------------------------- program constants
\* resolution = 40 (the coarse volume)
resolution == 40
\* num_rotations=12, the default generate_samples relies on
num_rotations_default == 12

\* ---------------------------------------------------------- Label
\* vgn.grasp.Label: success is the greatest outcome code, the others are
\* failure modes
LabelCOLLISION == 0
LabelSLIPPED == 1
LabelSUCCESS == 2
LabelSet == {LabelCOLLISION, LabelSLIPPED, LabelSUCCESS}

\* ------------------------------------------------------- sequences
\* F applied to the value of e, e being evaluated once
With(e, F(_)) == CHOOSE r \in {F(v) : v \in {e}} : TRUE

\* np.min in the place of np.max
SeqMin(s) ==
    CHOOSE m \in {s[i] : i \in DOMAIN s} : \A i \in DOMAIN s : m <= s[i]

\* np.max(outcomes)
SeqMax(s) ==
    CHOOSE m \in {s[i] : i \in DOMAIN s} : \A i \in DOMAIN s : s[i] <= m

RECURSIVE SeqSum(_)
\* np.sum(successes)
SeqSum(s) == IF s = <<>> THEN 0 ELSE s[1] + SeqSum(Tail(s))

\* ------------------------------------------------------ rotations
Cross(a, b) ==
    << a[2] * b[3] - a[3] * b[2],
       a[3] * b[1] - a[1] * b[3],
       a[1] * b[2] - a[2] * b[1] >>

Dot(a, b) == a[1] * b[1] + a[2] * b[2] + a[3] * b[3]

Abs(x) == IF x < 0 THEN -x ELSE x

Neg(a) == << -a[1], -a[2], -a[3] >>

\* the grasp frame on the object surface: the columns x, y, z of R
GraspFrame(normal) ==
    LET z_axis == Neg(normal)
        x0 == <<1, 0, 0>>
        x1 == IF Abs(Dot(x0, z_axis)) = 1 THEN <<0, 1, 0>> ELSE x0
        y_axis == Cross(z_axis, x1)
        x_axis == Cross(y_axis, z_axis)
    IN  <<x_axis, y_axis, z_axis>>

IdentityFrame == << <<1, 0, 0>>, <<0, 1, 0>>, <<0, 0, 1>> >>

\* Rotation.identity()
RotationIdentity == [R |-> IdentityFrame, yaw |-> <<0, 1>>]

\* R * Rotation.from_euler("z", yaw)
RotateZ(R, yaw) == [R |-> R, yaw |-> yaw]

\* np.linspace(0.0, np.pi, n): yaws[i] = (i - 1) * pi / (n - 1)
Linspace(n) == [i \in 1..n |-> <<i - 1, IF n = 1 THEN 1 ELSE n - 1>>]

\* ------------------------------------------- scipy.signal.find_peaks
\* x is 1-indexed here; the peak positions returned are 1-indexed as well.

\* the plateau [l, r] of a local maximum: x[l-1] < x[l] = ... = x[r] > x[r+1]
IsPlateau(x, l, r) ==
    /\ 1 < l /\ l <= r /\ r < Len(x)
    /\ \A i \in l..r : x[i] = x[l]
    /\ x[l - 1] < x[l]
    /\ x[r + 1] < x[r]

\* the elements of a set of integers in ascending order
SortedSeq(S) ==
    [k \in 1..Cardinality(S) |->
        CHOOSE m \in S : Cardinality({a \in S : a < m}) = k - 1]

\* _local_maxima_1d: the midpoints (left + right) // 2 of all plateaus,
\* in ascending order
LocalMaxima(x) ==
    With({(lr[1] + lr[2]) \div 2 :
             lr \in {c \in (1..Len(x)) \X (1..Len(x)) : IsPlateau(x, c[1], c[2])}},
         SortedSeq)

RECURSIVE WalkLeft(_, _, _, _, _)
\* _peak_prominences, the walk to the left of the peak: <<left_min, left_base>>
WalkLeft(x, peak, i, min, base) ==
    IF i >= 1 /\ x[i] <= x[peak]
    THEN IF x[i] < min THEN WalkLeft(x, peak, i - 1, x[i], i)
         ELSE WalkLeft(x, peak, i - 1, min, base)
    ELSE <<min, base>>

RECURSIVE WalkRight(_, _, _, _, _)
\* _peak_prominences, the walk to the right of the peak
WalkRight(x, peak, i, min, base) ==
    IF i <= Len(x) /\ x[i] <= x[peak]
    THEN IF x[i] < min THEN WalkRight(x, peak, i + 1, x[i], i)
         ELSE WalkRight(x, peak, i + 1, min, base)
    ELSE <<min, base>>

\* _peak_prominences: [prominence, left_base, right_base] of one peak
PeakProminence(x, peak) ==
    LET l == WalkLeft(x, peak, peak, x[peak], peak)
        r == WalkRight(x, peak, peak, x[peak], peak)
        hi == IF l[1] >= r[1] THEN l[1] ELSE r[1]
    IN  [prominence |-> x[peak] - hi, left_base |-> l[2], right_base |-> r[2]]

RECURSIVE StepLeft(_, _, _, _)
\* _peak_widths: i moves left while i_min < i and height < x[i];
\* heights are doubled (h2 = 2 * height) to stay in the integers
StepLeft(x, i, i_min, h2) ==
    IF i_min < i /\ h2 < 2 * x[i] THEN StepLeft(x, i - 1, i_min, h2) ELSE i

RECURSIVE StepRight(_, _, _, _)
StepRight(x, i, i_max, h2) ==
    IF i < i_max /\ h2 < 2 * x[i] THEN StepRight(x, i + 1, i_max, h2) ELSE i

\* left_ip = i + (height - x[i]) / (x[i + 1] - x[i]) when x[i] < height, doubled
LeftIp2(x, i, h2) ==
    IF 2 * x[i] < h2 THEN 2 * i + (h2 - 2 * x[i]) \div (x[i + 1] - x[i]) ELSE 2 * i

\* right_ip = j - (height - x[j]) / (x[j - 1] - x[j]) when x[j] < height, doubled
RightIp2(x, j, h2) ==
    IF 2 * x[j] < h2 THEN 2 * j - (h2 - 2 * x[j]) \div (x[j - 1] - x[j]) ELSE 2 * j

\* _peak_widths: twice right_ip - left_ip at the doubled evaluation height h2
WidthAtHeight2(x, peak, p, h2) ==
    With(StepRight(x, peak, p.right_base, h2), LAMBDA j : RightIp2(x, j, h2))
        - With(StepLeft(x, peak, p.left_base, h2), LAMBDA i : LeftIp2(x, i, h2))

\* _peak_widths at rel_height 0.5: twice the width right_ip - left_ip, the
\* evaluation height being x[peak] - prominence * 0.5. On a 0/1 signal that
\* height is 1/2 and both interpolated crossings lie half a sample from a
\* sample, so the doubled width is an integer.
PeakWidth2(x, peak) ==
    With(PeakProminence(x, peak),
         LAMBDA p : WidthAtHeight2(x, peak, p, 2 * x[peak] - p.prominence))

\* the peaks of find_peaks(x, height=1, width=1) among the local maxima all
PeaksKept(x, all) ==
    SelectSeq(all, LAMBDA p : x[p] >= 1 /\ PeakWidth2(x, p) >= 2)

\* find_peaks(x, height=1, width=1): the peaks that pass both conditions and
\* their widths (doubled)
FindPeaks(x) ==
    With(PeaksKept(x, LocalMaxima(x)),
         LAMBDA keep : [peaks |-> keep,
                        widths2 |-> [k \in 1..Len(keep) |-> PeakWidth2(x, keep[k])]])

\* an argmax that returns the last index of the greatest element
ArgMaxLast(s) ==
    CHOOSE k \in 1..Len(s) :
        /\ \A j \in 1..Len(s) : s[j] <= s[k]
        /\ \A j \in (k + 1)..Len(s) : s[j] < s[k]

\* np.argmax: the first index of the greatest element
ArgMax(s) ==
    CHOOSE k \in 1..Len(s) :
        /\ \A j \in 1..Len(s) : s[j] <= s[k]
        /\ \A j \in 1..(k - 1) : s[j] < s[k]

\* (np.asarray(outcomes) == Label.SUCCESS).astype(float)
Successes(outs) == [i \in 1..Len(outs) |-> IF outs[i] = LabelSUCCESS THEN 1 ELSE 0]

\* peaks[np.argmax(properties["widths"])] - 1, as a 1-indexed yaw position:
\* the padded signal np.r_[0, successes, 0] is 1-indexed here, so position p
\* of the padded signal is 0-indexed yaw p - 2, that is 1-indexed yaw p - 1
IdxOfWidestPeak(outs) ==
    With(<<0>> \o Successes(outs) \o <<0>>,
         LAMBDA x : With(FindPeaks(x),
                         LAMBDA fp : fp.peaks[ArgMax(fp.widths2)] - 1))

\* --------------------------------------------------- evaluate_grasp_point
\* Grasp(Transform(ori, pos), width)
Grasp(ori, pos, width) ==
    [pose |-> [rotation |-> ori, translation |-> pos], width |-> width]

\* an evaluate_grasp_point that keeps the first recorded width when no yaw
\* succeeds
EvaluateResultKeepsWidth(nrm, p, outs, ws) ==
    LET R == GraspFrame(nrm)
        yaws == Linspace(Len(outs))
    IN  [grasp |-> IF SeqSum(Successes(outs)) # 0
                   THEN With(IdxOfWidestPeak(outs),
                             LAMBDA idx : Grasp(RotateZ(R, yaws[idx]), p, ws[idx]))
                   ELSE Grasp(RotationIdentity, p, ws[1]),
         label |-> SeqMax(outs)]

\* the value evaluate_grasp_point returns once the sweep has recorded
\* outs and ws for the yaws of Linspace(Len(outs))
EvaluateResult(nrm, p, outs, ws) ==
    LET R == GraspFrame(nrm)
        yaws == Linspace(Len(outs))
    IN  [grasp |-> IF SeqSum(Successes(outs)) # 0
                   THEN With(IdxOfWidestPeak(outs),
                             LAMBDA idx : Grasp(RotateZ(R, yaws[idx]), p, ws[idx]))
                   ELSE Grasp(RotationIdentity, p, 0),
         label |-> SeqMax(outs)]

\* --------------------------------------------------- generate_samples
\* is_positive = lambda o: o == Label.SUCCESS
is_positive(o) == o = LabelSUCCESS

\* a loop that runs once more: len(grasps) <= num_grasps_per_scene
LoopConditionInclusive(gs, quota) == Len(gs) <= quota

\* while len(grasps) < num_grasps_per_scene
LoopCondition(gs, quota) == Len(gs) < quota

\* a budget one too large: num_negatives <= num_grasps_per_scene // 2
AcceptsInclusiveBudget(lab, negatives, quota) ==
    is_positive(lab) \/ negatives <= quota \div 2

\* an acceptance that holds successes to the negative budget too
AcceptsWithinBudgetOnly(lab, negatives, quota) ==
    negatives < quota \div 2

\* if is_positive(label) or num_negatives < num_grasps_per_scene // 2
Accepts(lab, negatives, quota) ==
    is_positive(lab) \/ negatives < quota \div 2

\* ------------------------------------------------------ the test scenes
\* hand.finger_depth, in half voxels
Hand == [finger_depth |-> 5]

\* eps = 0.2, as a fraction
eps == <<1, 5>>

\* the coarse TSDFVolume: voxel_size in half voxels
Tsdf == [voxel_size |-> 2, resolution |-> resolution]

\* what sim.setup can arrange: a table whose objects reconstruct to two
\* surface points, and one of which nothing reconstructs
Worlds == {"table", "bare"}

\* high_res_tsdf.extract_point_cloud(): points with outward unit normals
PointCloud(w) ==
    IF w = "table"
    THEN << [point |-> <<78, 0, 15>>, normal |-> <<0, -1, 0>>],
            [point |-> <<79, 0, 17>>, normal |-> <<1, 0, 0>>],
            [point |-> <<40, 40, 21>>, normal |-> <<0, 0, 1>>] >>
    ELSE << >>

\* np.random.uniform(-eps * finger_depth, (1.0 + eps) * finger_depth): the
\* whole depths of that interval
GraspDepths(fd) ==
    {d \in (-fd)..(2 * fd) :
        /\ -(eps[1] * fd) <= eps[2] * d
        /\ eps[2] * d <= (eps[2] + eps[1]) * fd}

\* the draws (idx, grasp_depth) of sample_grasp_point that the scenes use:
\* both ends of the depth interval on the first two points, the finger depth
\* itself on the third
Draws(cloud) ==
    LET D == GraspDepths(Hand.finger_depth)
        lo == CHOOSE d \in D : \A e \in D : d <= e
        hi == CHOOSE d \in D : \A e \in D : d >= e
    IN  (({1, 2} \cap (1..Len(cloud))) \X {lo, hi})
            \cup (({3} \cap (1..Len(cloud))) \X {Hand.finger_depth})

\* sample_grasp_point for the draw dr: point + normal * (finger_depth - grasp_depth)
SampleGraspPoint(cloud, dr) ==
    LET pt == cloud[dr[1]].point
        nrm == cloud[dr[1]].normal
        off == Hand.finger_depth - dr[2]
    IN  [point |-> <<pt[1] + nrm[1] * off, pt[2] + nrm[2] * off, pt[3] + nrm[3] * off>>,
         normal |-> nrm]

\* sim.test_grasp on the table, from the restored baseline: the outcomes of
\* the twelve yaws at each grasp position
SimOutcomes(p) ==
    IF p = <<78, -6, 15>> THEN <<0, 1, 0, 0, 1, 1, 0, 0, 0, 1, 0, 0>>
    ELSE IF p = <<78, 1, 15>> THEN <<0, 2, 2, 0, 2, 0, 0, 1, 0, 0, 0, 0>>
    ELSE IF p = <<85, 0, 17>> THEN <<2, 2, 2, 0, 1, 2, 2, 2, 0, 0, 0, 2>>
    ELSE IF p = <<78, 0, 17>> THEN <<0, 0, 0, 0, 0, 0, 0, 0, 0, 0, 0, 0>>
    ELSE <<2, 2, 2, 2, 2, 2, 2, 2, 2, 2, 2, 2>>

\* sim.test_grasp(Transform(ori, pos)) on the table: (outcome, width); the
\* width differs from yaw to yaw and from position to position
SimTestGrasp(pose) ==
    LET i == pose.rotation.yaw[1] + 1
    IN  [outcome |-> SimOutcomes(pose.translation)[i],
         width |-> 3 + i + (pose.translation[3] % 5)]

\* ------------------------------------------------------- store_sample
\* vgn.grasp.to_voxel_coordinates(grasp, Transform.identity(), voxel_size):
\* the translation divided by the voxel size, each coordinate the fraction
\* <<num, den>>; the orientation and the width are kept
to_voxel_coordinates(g, voxel_size) ==
    [pose |-> [rotation |-> g.pose.rotation,
               translation |-> [a \in 1..3 |-> <<g.pose.translation[a], voxel_size>>]],
     width |-> g.width]

\* np.round of the fraction q = <<num, den>>: to the nearest integer, a half
\* to the even neighbour
Round(q) ==
    LET fl == q[1] \div q[2]
        rem == q[1] % q[2]
    IN  IF 2 * rem < q[2] THEN fl
        ELSE IF 2 * rem > q[2] THEN fl + 1
        ELSE IF fl % 2 = 0 THEN fl ELSE fl + 1

\* index = np.round(grasp.pose.translation).astype(np.int)
VoxelIndex(g) == [a \in 1..3 |-> Round(g.pose.translation[a])]

\* a range check that forgets the lower end
OutOfRangeAboveOnly(index, res) == \E a \in 1..3 : index[a] > res - 1

\* np.any(index < 0) or np.any(index > tsdf.resolution - 1)
OutOfRange(index, res) ==
    (\E a \in 1..3 : index[a] < 0) \/ (\E a \in 1..3 : index[a] > res - 1)

\* quality = 1.0 if label == Label.SUCCESS else 0.0
label2quality(lab) == IF lab = LabelSUCCESS THEN 1 ELSE 0

\* rotation.as_quat(): the rotation itself, the yaw taken modulo a full turn
as_quat(rot) == [R |-> rot.R, yaw |-> <<rot.yaw[1] % (2 * rot.yaw[2]), rot.yaw[2]>>]

\* rotation * R with R = Rotation.from_rotvec(np.pi * np.r_[0.0, 0.0, 1.0])
TimesRpi(rot) == [R |-> rot.R, yaw |-> <<rot.yaw[1] + rot.yaw[2], rot.yaw[2]>>]

\* A volume is kept as the function from the voxels written to so far to
\* their values; every other voxel of the grid holds the 0 of np.zeros.
ZeroVolume == [v \in {} |-> 0]

\* the five volumes after np.zeros / np.zeros_like
ZeroVolumes ==
    [qual_vol |-> ZeroVolume, rot_vol0 |-> ZeroVolume, rot_vol1 |-> ZeroVolume,
     width_vol |-> ZeroVolume, mask |-> ZeroVolume]

\* vol[..., i, j, k]
VolAt(vol, index) == IF index \in DOMAIN vol THEN vol[index] ELSE 0

\* a write that keeps what the voxel already holds
VolSetKeepsFirst(vol, index, val) ==
    [v \in (DOMAIN vol) \cup {index} |-> IF v \in DOMAIN vol THEN vol[v] ELSE val]

\* vol[..., i, j, k] = val
VolSet(vol, index, val) ==
    [v \in (DOMAIN vol) \cup {index} |-> IF v = index THEN val ELSE vol[v]]

\* one iteration of the loop of store_sample over zip(grasps, labels)
StoreEntry(vs, g0, lab) ==
    LET g == to_voxel_coordinates(g0, Tsdf.voxel_size)
        index == VoxelIndex(g)
    IN  IF OutOfRange(index, Tsdf.resolution) THEN vs
        ELSE [qual_vol |-> VolSet(vs.qual_vol, index, label2quality(lab)),
              rot_vol0 |-> VolSet(vs.rot_vol0, index, as_quat(g.pose.rotation)),
              rot_vol1 |-> VolSet(vs.rot_vol1, index, as_quat(TimesRpi(g.pose.rotation))),
              width_vol |-> VolSet(vs.width_vol, index, g.width),
              mask |-> VolSet(vs.mask, index, 1)]

\* ------------------------------------------------------------- state
VARIABLES
    pc,                    \* where the worker is
    num_scenes,            \* generate_samples' arguments
    num_grasps_per_scene,
    scene,                 \* iterations of the scene loop completed
    world,                 \* what sim.setup arranged
    sim_calls,             \* sim.setup / sim.save_state calls of this scene
    sim_trace,             \* sim calls of the running evaluate_grasp_point
    point_cloud,
    grasps, labels, num_negatives,
    pos, normal, num_rotations, outcomes, widths,   \* evaluate_grasp_point
    grasp, label,          \* what it returned
    vols, k,               \* store_sample: the volumes, the loop position
    persisted,             \* the archives written, by scene
    sampled, attempted,    \* this scene: sample_grasp_point / test_grasp called
    nonempty               \* the scenes whose fine cloud was not empty

vars ==
    <<pc, num_scenes, num_grasps_per_scene, scene, world, sim_calls, sim_trace,
      point_cloud, grasps, labels, num_negatives, pos, normal, num_rotations,
      outcomes, widths, grasp, label, vols, k, persisted, sampled, attempted,
      nonempty>>

\* the variables of generate_samples outside the running evaluation
sceneVars ==
    <<num_scenes, num_grasps_per_scene, scene, world, sim_calls, point_cloud,
      grasps, labels, num_negatives, vols, k, persisted, sampled, nonempty>>

\* the locals no statement has assigned yet
Unassigned ==
    /\ world = "none" /\ point_cloud = <<>>
    /\ grasps = <<>> /\ labels = <<>> /\ num_negatives = 0
    /\ outcomes = <<>> /\ widths = <<>> /\ sim_trace = <<>>
    /\ grasp = Grasp(RotationIdentity, <<0, 0, 0>>, 0) /\ label = 0
    /\ vols = ZeroVolumes /\ k = 0
    /\ persisted = <<>> /\ sampled = FALSE /\ attempted = FALSE /\ nonempty = {}

Init ==
    /\ pc = "for"
    /\ num_scenes \in 0..MaxScenes
    /\ num_grasps_per_scene \in 0..MaxQuota
    /\ scene = 0
    /\ sim_calls = <<>>
    /\ pos = <<0, 0, 0>> /\ normal = <<0, 0, 1>>
    /\ num_rotations = num_rotations_default
    /\ Unassigned

\* ----------------------------------------------- generate_samples' steps
\* sim.setup(object_set)
Setup ==
    /\ pc = "for" /\ scene < num_scenes
    /\ \E w \in Worlds : world' = w
    /\ sim_calls' = <<"setup">>
    /\ sampled' = FALSE /\ attempted' = FALSE
    /\ pc' = "save_state"
    /\ UNCHANGED <<num_scenes, num_grasps_per_scene, scene, sim_trace, point_cloud,
                   grasps, labels, num_negatives, pos, normal, num_rotations,
                   outcomes, widths, grasp, label, vols, k, persisted, nonempty>>

\* sim.save_state()
SaveState ==
    /\ pc = "save_state"
    /\ sim_calls' = Append(sim_calls, "save_state")
    /\ pc' = "reconstruct"
    /\ UNCHANGED <<num_scenes, num_grasps_per_scene, scene, world, sim_trace,
                   point_cloud, grasps, labels, num_negatives, pos, normal,
                   num_rotations, outcomes, widths, grasp, label, vols, k,
                   persisted, sampled, attempted, nonempty>>

\* a scene loop that samples whatever the cloud holds
ReconstructNoSkip ==
    /\ pc = "reconstruct"
    /\ point_cloud' = PointCloud(world)
    /\ pc' = "while"
    /\ grasps' = <<>> /\ labels' = <<>> /\ num_negatives' = 0
    /\ nonempty' = IF point_cloud' = <<>> THEN nonempty ELSE nonempty \cup {scene}
    /\ UNCHANGED <<num_scenes, num_grasps_per_scene, scene, world, sim_calls,
                   sim_trace, pos, normal, num_rotations, outcomes, widths, grasp,
                   label, vols, k, persisted, sampled, attempted>>

\* the views are rendered and fused, the fine cloud is extracted; an empty
\* cloud skips the scene, otherwise the pool starts empty
Reconstruct ==
    /\ pc = "reconstruct"
    /\ point_cloud' = PointCloud(world)
    /\ IF point_cloud' = <<>>
       THEN /\ pc' = "for" /\ scene' = scene + 1
            /\ UNCHANGED <<grasps, labels, num_negatives, nonempty>>
       ELSE /\ pc' = "while"
            /\ grasps' = <<>> /\ labels' = <<>> /\ num_negatives' = 0
            /\ nonempty' = nonempty \cup {scene}
            /\ UNCHANGED scene
    /\ UNCHANGED <<num_scenes, num_grasps_per_scene, world, sim_calls, sim_trace,
                   pos, normal, num_rotations, outcomes, widths, grasp, label,
                   vols, k, persisted, sampled, attempted>>

\* the loop continues: sample_grasp_point, then evaluate_grasp_point is
\* entered with the default num_rotations
SamplePoint ==
    /\ pc = "while" /\ LoopCondition(grasps, num_grasps_per_scene)
    /\ \E dr \in Draws(point_cloud) :
          LET s == SampleGraspPoint(point_cloud, dr)
          IN  pos' = s.point /\ normal' = s.normal
    /\ num_rotations' = num_rotations_default
    /\ outcomes' = <<>> /\ widths' = <<>> /\ sim_trace' = <<>>
    /\ sampled' = TRUE
    /\ pc' = "restore_state"
    /\ UNCHANGED <<num_scenes, num_grasps_per_scene, scene, world, sim_calls,
                   point_cloud, grasps, labels, num_negatives, grasp, label,
                   vols, k, persisted, attempted, nonempty>>

\* the pose of the next attempt: Transform(R * Rotation.from_euler("z", yaw), pos)
SweepPose ==
    LET yaws == Linspace(num_rotations)
    IN  [rotation |-> RotateZ(GraspFrame(normal), yaws[Len(outcomes) + 1]),
         translation |-> pos]

\* a sweep that does not restore between attempts
AfterAttemptNoRestore(n, total) == IF n = total THEN "peak" ELSE "test_grasp"

\* where the sweep goes after recording n outcomes
AfterAttempt(n, total) == IF n = total THEN "peak" ELSE "restore_state"

\* sim.restore_state()
RestoreState ==
    /\ pc = "restore_state"
    /\ sim_trace' = Append(sim_trace, [op |-> "restore_state"])
    /\ pc' = "test_grasp"
    /\ UNCHANGED sceneVars
    /\ UNCHANGED <<pos, normal, num_rotations, outcomes, widths, grasp, label, attempted>>

\* outcome, width = sim.test_grasp(Transform(ori, pos)) answered r; both
\* are appended
Attempt(pose, r) ==
    /\ pc = "test_grasp"
    /\ sim_trace' = Append(sim_trace, [op |-> "test_grasp", pose |-> pose])
    /\ outcomes' = Append(outcomes, r.outcome)
    /\ widths' = Append(widths, r.width)
    /\ attempted' = TRUE
    /\ pc' = AfterAttempt(Len(outcomes) + 1, num_rotations)
    /\ UNCHANGED sceneVars
    /\ UNCHANGED <<pos, normal, num_rotations, grasp, label>>

\* the attempt in a scene: the simulation answers for the pose
TestGrasp ==
    /\ pc = "test_grasp"
    /\ \E pose \in {SweepPose} :
          \E r \in {SimTestGrasp(pose)} : Attempt(pose, r)

\* the peak is selected and evaluate_grasp_point returns
EvaluateReturn ==
    /\ pc = "peak"
    /\ \E r \in {EvaluateResult(normal, pos, outcomes, widths)} :
          grasp' = r.grasp /\ label' = r.label
    /\ pc' = "balance"
    /\ UNCHANGED sceneVars
    /\ UNCHANGED <<sim_trace, pos, normal, num_rotations, outcomes, widths, attempted>>

\* the class-balancing acceptance of the candidate
Balance ==
    /\ pc = "balance"
    /\ IF Accepts(label, num_negatives, num_grasps_per_scene)
       THEN /\ grasps' = Append(grasps, grasp)
            /\ labels' = Append(labels, label)
            /\ num_negatives' = num_negatives + (IF is_positive(label) THEN 0 ELSE 1)
       ELSE UNCHANGED <<grasps, labels, num_negatives>>
    /\ pc' = "while"
    /\ UNCHANGED <<num_scenes, num_grasps_per_scene, scene, world, sim_calls,
                   sim_trace, point_cloud, pos, normal, num_rotations, outcomes,
                   widths, grasp, label, vols, k, persisted, sampled, attempted,
                   nonempty>>

\* the loop ends and store_sample is entered: the volumes are zeroed
BeginStore ==
    /\ pc = "while" /\ ~LoopCondition(grasps, num_grasps_per_scene)
    /\ vols' = ZeroVolumes /\ k' = 1
    /\ pc' = "store"
    /\ UNCHANGED <<num_scenes, num_grasps_per_scene, scene, world, sim_calls,
                   sim_trace, point_cloud, grasps, labels, num_negatives, pos,
                   normal, num_rotations, outcomes, widths, grasp, label,
                   persisted, sampled, attempted, nonempty>>

\* for grasp, label in zip(grasps, labels): one pair
StoreStep ==
    /\ pc = "store" /\ k <= Len(grasps) /\ k <= Len(labels)
    /\ vols' = StoreEntry(vols, grasps[k], labels[k])
    /\ k' = k + 1
    /\ UNCHANGED <<pc, num_scenes, num_grasps_per_scene, scene, world, sim_calls,
                   sim_trace, point_cloud, grasps, labels, num_negatives, pos,
                   normal, num_rotations, outcomes, widths, grasp, label,
                   persisted, sampled, attempted, nonempty>>

\* the pairs are exhausted
StoreLoopDone == k > Len(grasps) \/ k > Len(labels)

\* np.savez_compressed under a fresh uuid; store_sample returns, its volumes
\* go out of scope, and the scene loop takes its next iteration
Savez ==
    /\ pc = "store" /\ StoreLoopDone
    /\ persisted' = Append(persisted, scene)
    /\ vols' = ZeroVolumes /\ k' = 0
    /\ scene' = scene + 1
    /\ pc' = "for"
    /\ UNCHANGED <<num_scenes, num_grasps_per_scene, world, sim_calls, sim_trace,
                   point_cloud, grasps, labels, num_negatives, pos, normal,
                   num_rotations, outcomes, widths, grasp, label, sampled,
                   attempted, nonempty>>

\* range(num_scenes) is exhausted
Finish ==
    /\ pc = "for" /\ scene >= num_scenes
    /\ pc' = "done"
    /\ UNCHANGED <<num_scenes, num_grasps_per_scene, scene, world, sim_calls,
                   sim_trace, point_cloud, grasps, labels, num_negatives, pos,
                   normal, num_rotations, outcomes, widths, grasp, label, vols,
                   k, persisted, sampled, attempted, nonempty>>

Next ==
    \/ Setup \/ SaveState \/ Reconstruct
    \/ SamplePoint \/ RestoreState \/ TestGrasp \/ EvaluateReturn \/ Balance
    \/ BeginStore \/ StoreStep \/ Savez
    \/ Finish

Spec == Init /\ [][Next]_vars

\* ------------------------------- evaluate_grasp_point on its own
\* the surface samples it is called with: a normal along x (the frame falls
\* back to the y axis) and one along z
EvalInputs ==
    { [point |-> <<78, 0, 17>>, normal |-> <<1, 0, 0>>],
      [point |-> <<40, 40, 21>>, normal |-> <<0, 0, 1>>] }

\* the gripper widths a simulation reports
SimWidths == {4, 7}

\* the call evaluate_grasp_point(sim, pos, normal, num_rotations), the
\* baseline having been saved
InitEval ==
    /\ pc = "restore_state"
    /\ num_scenes = 1 /\ num_grasps_per_scene = 1 /\ scene = 0
    /\ sim_calls = <<"setup", "save_state">>
    /\ \E s \in EvalInputs : pos = s.point /\ normal = s.normal
    /\ num_rotations \in 1..MaxRotations
    /\ Unassigned

\* the attempt against any simulation: every outcome, every width
TestGraspAny ==
    /\ pc = "test_grasp"
    /\ \E pose \in {SweepPose} :
          \E o \in LabelSet, w \in SimWidths :
              Attempt(pose, [outcome |-> o, width |-> w])

NextEval == RestoreState \/ TestGraspAny \/ EvaluateReturn

SpecEval == InitEval /\ [][NextEval]_vars

\* the simulation keeps producing successful evaluations
SamplesSuccess ==
    /\ SamplePoint
    /\ \E i \in 1..num_rotations_default :
          SimOutcomes(pos')[i] = LabelSUCCESS

\* a worker of at most MaxLiveScenes scenes
InitLive == Init /\ num_scenes <= MaxLiveScenes

\* the worker keeps running, and a position at which some yaw succeeds is
\* sampled again and again
LiveSpec ==
    InitLive /\ [][Next]_vars /\ WF_vars(Next) /\ SF_vars(SamplesSuccess)

\* ==================================================== the claims
\* the entries of the pool
Pool == DOMAIN grasps

\* the voxel index the k-th pool entry rounds to
IndexOf(i) == VoxelIndex(to_voxel_coordinates(grasps[i], Tsdf.voxel_size))

\* it lies in [0, resolution - 1] on all three axes
InRange(index) == \A a \in 1..3 : 0 <= index[a] /\ index[a] <= resolution - 1

\* the voxels any of the five volumes was written at
Touched ==
    DOMAIN vols.qual_vol \cup DOMAIN vols.rot_vol0 \cup DOMAIN vols.rot_vol1
        \cup DOMAIN vols.width_vol \cup DOMAIN vols.mask

\* the number of pool entries whose label is not SUCCESS
NegativesInPool == Cardinality({i \in DOMAIN labels : labels[i] # LabelSUCCESS})

\* no yaw of the finished sweep succeeded
NoSuccess == \A i \in DOMAIN outcomes : outcomes[i] # LabelSUCCESS

\* C1: the pool never holds more than num_grasps_per_scene entries, grasps
\* and labels are of equal length, and the pool that store_sample is given
\* holds exactly num_grasps_per_scene entries.
C1_PoolHoldsQuota ==
    /\ Len(grasps) = Len(labels)
    /\ Len(grasps) <= num_grasps_per_scene
    /\ pc = "store" => Len(grasps) = num_grasps_per_scene

C1_Witness ==
    pc = "store" /\ num_grasps_per_scene >= 2 /\ Len(grasps) = num_grasps_per_scene

\* C2: the pool entries whose label is not SUCCESS number num_negatives, at
\* most num_grasps_per_scene // 2, so a finalized pool has at least
\* quota - quota // 2 SUCCESS entries; a SUCCESS candidate is always
\* appended, another one exactly while num_negatives < quota // 2.
C2_NegativesAtMostHalf ==
    /\ [](/\ NegativesInPool = num_negatives
          /\ num_negatives <= num_grasps_per_scene \div 2
          /\ pc = "store" =>
                Len(labels) - NegativesInPool
                    >= num_grasps_per_scene - num_grasps_per_scene \div 2)
    /\ [][pc = "balance" =>
            IF label = LabelSUCCESS \/ num_negatives < num_grasps_per_scene \div 2
            THEN grasps' = Append(grasps, grasp) /\ labels' = Append(labels, label)
            ELSE grasps' = grasps /\ labels' = labels]_vars

C2_Witness ==
    /\ pc = "store" /\ num_negatives >= 1
    /\ num_negatives = num_grasps_per_scene \div 2
    /\ label # LabelSUCCESS

\* C3: when positions with a successful yaw keep being sampled, a sampling
\* loop that has been entered (the scene's fine cloud is non-empty) ends, and
\* the worker is then back at the scene loop with store_sample called exactly
\* once for the scene just left, on a pool of exactly num_grasps_per_scene
\* (grasp, label) pairs.
C3_SamplingTerminates ==
    (pc = "while")
        ~> (/\ pc = "for" /\ scene >= 1
            /\ Cardinality({i \in DOMAIN persisted : persisted[i] = scene - 1}) = 1
            /\ Len(grasps) = num_grasps_per_scene
            /\ Len(labels) = num_grasps_per_scene)

C3_Witness ==
    /\ pc = "for" /\ scene = 1 /\ persisted = <<0>>
    /\ num_grasps_per_scene >= 2 /\ Len(grasps) = num_grasps_per_scene
    /\ num_negatives >= 1

\* the maximal runs <<first, last>> of SUCCESS in the sweep
SuccessRuns ==
    {run \in (DOMAIN outcomes) \X (DOMAIN outcomes) :
        /\ run[1] <= run[2]
        /\ \A i \in run[1]..run[2] : outcomes[i] = LabelSUCCESS
        /\ run[1] - 1 \in DOMAIN outcomes => outcomes[run[1] - 1] # LabelSUCCESS
        /\ run[2] + 1 \in DOMAIN outcomes => outcomes[run[2] + 1] # LabelSUCCESS}

\* the longest of them, the one that starts first among the longest
LongestRun ==
    CHOOSE run \in SuccessRuns :
        \A other \in SuccessRuns :
            \/ other[2] - other[1] < run[2] - run[1]
            \/ other[2] - other[1] = run[2] - run[1] /\ run[1] <= other[1]

\* C4: after a sweep with a SUCCESS, the grasp returned has the rotation that
\* was attempted at the midpoint yaw of the longest run of SUCCESS (the first
\* such run among equally long ones) and the width recorded for that yaw;
\* for [fail, success, success, fail, success] that yaw is one of the two
\* adjacent successes.
C4_MidpointOfWidestRun ==
    (pc = "balance" /\ ~NoSuccess) =>
        LET mid == (LongestRun[1] + LongestRun[2]) \div 2
        IN  /\ grasp.pose.rotation = sim_trace[2 * mid].pose.rotation
            /\ grasp.pose.rotation.yaw = <<mid - 1, IF num_rotations = 1 THEN 1 ELSE num_rotations - 1>>
            /\ grasp.pose.translation = pos
            /\ grasp.width = widths[mid]
            /\ [i \in DOMAIN outcomes |-> outcomes[i] = LabelSUCCESS]
                   = <<FALSE, TRUE, TRUE, FALSE, TRUE>> => mid \in {2, 3}

C4_Witness ==
    /\ pc = "balance"
    /\ outcomes = <<LabelCOLLISION, LabelSUCCESS, LabelSUCCESS, LabelSLIPPED, LabelSUCCESS>>
    /\ widths = <<4, 4, 7, 4, 4>>
    /\ grasp.width = 4

\* C5: after a sweep without any SUCCESS, the grasp returned is the identity
\* rotation at the raw position with width 0 whatever widths were reported,
\* and the label is the greatest outcome code of the sweep, a failure code.
C5_NoSuccessResult ==
    (pc = "balance" /\ NoSuccess) =>
        /\ grasp.pose.rotation = [R |-> << <<1, 0, 0>>, <<0, 1, 0>>, <<0, 0, 1>> >>, yaw |-> <<0, 1>>]
        /\ grasp.pose.translation = pos
        /\ grasp.width = 0
        /\ \E i \in DOMAIN outcomes : label = outcomes[i]
        /\ \A i \in DOMAIN outcomes : outcomes[i] <= label
        /\ label \in {LabelCOLLISION, LabelSLIPPED}

C5_Witness ==
    /\ pc = "balance" /\ NoSuccess
    /\ Len(outcomes) >= 2 /\ outcomes[1] = LabelSLIPPED /\ outcomes[2] = LabelCOLLISION
    /\ \A i \in DOMAIN widths : widths[i] > 0

\* C8 as claimed: after a sweep without any SUCCESS the label is the outcome
\* of the first yaw.
C8_LabelIsFirstOutcome ==
    (pc = "balance" /\ NoSuccess) => label = outcomes[1]

\* C8 amended: after a sweep without any SUCCESS the label is at least the
\* outcome of the first yaw, and is that outcome exactly when no later yaw
\* failed with a greater code.
C8_LabelIsFirstOnlyIfGreatest ==
    (pc = "balance" /\ NoSuccess) =>
        /\ label >= outcomes[1]
        /\ label = outcomes[1] <=> \A i \in DOMAIN outcomes : outcomes[i] <= outcomes[1]

C8_Witness ==
    /\ pc = "balance" /\ NoSuccess
    /\ Len(outcomes) >= 3
    /\ outcomes[1] = LabelCOLLISION /\ outcomes[3] = LabelSLIPPED
    /\ label = LabelSLIPPED

\* C9: in every evaluate_grasp_point the simulation calls alternate
\* restore_state, test_grasp, the attempts take the yaws (j - 1) * pi / 11 in
\* ascending order at the sampled position, a finished sweep has made
\* exactly num_rotations = 12 such pairs, and whenever a scene has seen an
\* attempt its simulation calls before the sampling were setup, then
\* save_state, once each.
C9_RestoreBeforeEachAttempt ==
    /\ \A j \in DOMAIN sim_trace :
          IF j % 2 = 1
          THEN sim_trace[j].op = "restore_state"
          ELSE /\ sim_trace[j].op = "test_grasp"
               /\ sim_trace[j].pose.rotation.yaw = <<j \div 2 - 1, num_rotations_default - 1>>
               /\ sim_trace[j].pose.translation = pos
    /\ Len(sim_trace) <= 2 * num_rotations_default
    /\ Len(outcomes) = Len(sim_trace) \div 2
    /\ pc \in {"peak", "balance"} => Len(sim_trace) = 2 * num_rotations_default
    /\ pc = "test_grasp" => Len(sim_trace) % 2 = 1
    /\ pc = "restore_state" => Len(sim_trace) < 2 * num_rotations_default
    /\ (attempted \/ pc \in {"restore_state", "test_grasp", "peak", "balance"})
          => sim_calls = <<"setup", "save_state">>

C9_Witness ==
    /\ pc = "peak" /\ Len(sim_trace) = 24
    /\ sim_trace[23].op = "restore_state"
    /\ sim_trace[24].pose.rotation.yaw = <<11, 11>>

\* C7: a scene whose fine cloud is empty sees no sample_grasp_point, no
\* attempt and no store_sample, and the worker goes on with the next scene;
\* every finished scene with a non-empty cloud has exactly one archive, and a
\* finished worker has run all its scenes.
C7_EmptyCloudSkipsScene ==
    /\ [](/\ (sampled \/ attempted) => point_cloud # <<>>
          /\ \A i \in DOMAIN persisted :
                /\ persisted[i] \in nonempty
                /\ \A j \in DOMAIN persisted : persisted[j] = persisted[i] => j = i
          /\ \A s \in nonempty : s < scene => \E i \in DOMAIN persisted : persisted[i] = s
          /\ pc = "done" => scene = num_scenes)
    /\ [][pc = "reconstruct" =>
            /\ scene \in nonempty' <=> point_cloud' # <<>>
            /\ point_cloud' = <<>> =>
                  /\ pc' = "for" /\ scene' = scene + 1
                  /\ persisted' = persisted
                  /\ ~sampled' /\ ~attempted']_vars

C7_Witness ==
    pc = "done" /\ num_scenes = 2 /\ persisted = <<1>> /\ nonempty = {1}

\* the volumes hold the k-th pool entry at its voxel
EntryStored(i) ==
    LET g == to_voxel_coordinates(grasps[i], Tsdf.voxel_size)
        v == VoxelIndex(g)
    IN  /\ VolAt(vols.qual_vol, v) = (IF labels[i] = LabelSUCCESS THEN 1 ELSE 0)
        /\ VolAt(vols.width_vol, v) = g.width
        /\ VolAt(vols.rot_vol0, v) = as_quat(g.pose.rotation)

\* store_sample has gone through the whole pool
Rasterized == pc = "store" /\ k > Len(grasps)

\* C6 as claimed: every pool entry that rounds to a voxel of the grid is found
\* there (mask 1, its quality, width and quaternion); an entry that rounds
\* outside the grid has written nowhere.
C6_EveryEntryRecoverable ==
    Rasterized =>
        /\ Len(grasps) = num_grasps_per_scene
        /\ \A i \in Pool :
              IF InRange(IndexOf(i))
              THEN VolAt(vols.mask, IndexOf(i)) = 1 /\ EntryStored(i)
              ELSE IndexOf(i) \notin Touched
        /\ \A v \in Touched : \E i \in Pool : InRange(IndexOf(i)) /\ IndexOf(i) = v

\* C6 amended: every pool entry that rounds to a voxel of the grid leaves
\* mask 1 there, and its quality, width and quaternion are found there unless
\* a later pool entry rounds to the same voxel; an entry that rounds outside
\* the grid has written nowhere, and counts toward the quota all the same.
C6_EntryRecoverableUnlessOverwritten ==
    Rasterized =>
        /\ Len(grasps) = num_grasps_per_scene
        /\ \A i \in Pool :
              IF InRange(IndexOf(i))
              THEN /\ VolAt(vols.mask, IndexOf(i)) = 1
                   /\ (\A j \in Pool : j > i => IndexOf(j) # IndexOf(i)) => EntryStored(i)
              ELSE IndexOf(i) \notin Touched
        /\ \A v \in Touched : \E i \in Pool : InRange(IndexOf(i)) /\ IndexOf(i) = v

C6_Witness ==
    /\ Rasterized
    /\ \E i, j \in Pool :
          /\ InRange(IndexOf(i)) /\ VolAt(vols.mask, IndexOf(i)) = 1
          /\ VolAt(vols.qual_vol, IndexOf(i)) = 1
          /\ \E a \in 1..3 : IndexOf(j)[a] < 0
    /\ \E j \in Pool : \E a \in 1..3 : IndexOf(j)[a] > resolution - 1

\* C10: while store_sample runs, each voxel holds the quality, the two
\* rotations and the width of the last pool entry processed so far that
\* rounds to it, with mask 1, and a voxel no processed in-range entry rounds
\* to holds 0 in all five volumes.
C10_LastWriteWins ==
    pc = "store" =>
        \A v \in Touched \cup {IndexOf(i) : i \in 1..(k - 1)} :
            LET hits == {i \in 1..(k - 1) : InRange(IndexOf(i)) /\ IndexOf(i) = v}
            IN  IF hits = {}
                THEN /\ VolAt(vols.qual_vol, v) = 0 /\ VolAt(vols.width_vol, v) = 0
                     /\ VolAt(vols.rot_vol0, v) = 0 /\ VolAt(vols.rot_vol1, v) = 0
                     /\ VolAt(vols.mask, v) = 0
                ELSE LET last == CHOOSE i \in hits : \A j \in hits : j <= i
                         g == to_voxel_coordinates(grasps[last], Tsdf.voxel_size)
                         rot == g.pose.rotation
                     IN  /\ VolAt(vols.qual_vol, v) = (IF labels[last] = LabelSUCCESS THEN 1 ELSE 0)
                         /\ VolAt(vols.width_vol, v) = g.width
                         /\ VolAt(vols.rot_vol0, v)
                                = [R |-> rot.R, yaw |-> <<rot.yaw[1] % (2 * rot.yaw[2]), rot.yaw[2]>>]
                         /\ VolAt(vols.rot_vol1, v)
                                = [R |-> rot.R,
                                   yaw |-> <<(rot.yaw[1] + rot.yaw[2]) % (2 * rot.yaw[2]), rot.yaw[2]>>]
                         /\ VolAt(vols.mask, v) = 1

C10_Witness ==
    /\ Rasterized
    /\ \E i, j \in Pool :
          /\ i < j /\ InRange(IndexOf(i)) /\ IndexOf(j) = IndexOf(i)
          /\ labels[i] = LabelSUCCESS /\ labels[j] # LabelSUCCESS
          /\ VolAt(vols.qual_vol, IndexOf(i)) = 0
    /\ \E i \in Pool : InRange(IndexOf(i)) /\ IndexOf(i) # IndexOf(1)

====
